---- MODULE Spec2Model ----
(***************************************************************************)
(* AMD LED control: platform detection and backend dispatch (lib/amd.c)    *)
(* and the SuperMicro IPMI register protocol (amd_sm_ipmi.c).              *)
(*                                                                         *)
(* The BMC status registers are firmware state outside the process; each   *)
(* call of the IPMI transport either succeeds or returns a non-zero code.  *)
(***************************************************************************)
EXTENDS Integers, Sequences, FiniteSets, TLC

VARIABLES
    amd_interface,      \* enum amd_led_interfaces amd_interface   (amd.c:34)
    amd_ipmi_platform,  \* enum amd_ipmi_platforms amd_ipmi_platform (amd.c:35)
    regs,               \* BMC status bytes, one per register offset
    device,             \* the block device and what its sysfs path resolves to
    last,               \* the last call made, what it met and what it returned
    prior,              \* the call before the last one, when the last repeated it
    calls,              \* the number of calls made so far
    inflight,           \* the register operations under way, one per process
    walk                \* the directory search under way

vars == <<amd_interface, amd_ipmi_platform, regs, device, last, prior, calls,
          inflight, walk>>

-----------------------------------------------------------------------------
(* Bounds of the model                                                     *)

\* Slot names found in the slot registry run from 0 to MaxPort.
MaxPort == 9
\* A run makes at most MaxCalls calls of the dispatcher's entry points.
MaxCalls == 3
\* A run makes at most MaxOps direct calls of the register protocol.
MaxOps == 2
\* A run makes at most MaxDisables direct calls of _disable_all_ibpi_states.
MaxDisables == 1
\* A run makes at most MaxWrites direct calls of _amd_ipmi_sm_write.
MaxWrites == 2
\* The directory trees searched have at most MaxNodes entries, the starting
\* directory included.
MaxNodes == 4
\* At most MaxFaults of the six disables of one _disable_all_ibpi_states
\* meet a transport error.
MaxFaults == 2

-----------------------------------------------------------------------------
(* enum ibpi_pattern, the members the dispatcher is asked to write         *)

IBPI_PATTERN_UNKNOWN        == "UNKNOWN"
IBPI_PATTERN_NORMAL         == "NORMAL"
IBPI_PATTERN_ONESHOT_NORMAL == "ONESHOT_NORMAL"
IBPI_PATTERN_PFA            == "PFA"
IBPI_PATTERN_LOCATE         == "LOCATE"
IBPI_PATTERN_LOCATE_OFF     == "LOCATE_OFF"
IBPI_PATTERN_FAILED_DRIVE   == "FAILED_DRIVE"
IBPI_PATTERN_FAILED_ARRAY   == "FAILED_ARRAY"
IBPI_PATTERN_REBUILD        == "REBUILD"
IBPI_PATTERN_HOTSPARE       == "HOTSPARE"

\* The patterns that have a register of their own.
Addressable ==
    { IBPI_PATTERN_PFA, IBPI_PATTERN_LOCATE, IBPI_PATTERN_LOCATE_OFF,
      IBPI_PATTERN_FAILED_DRIVE, IBPI_PATTERN_FAILED_ARRAY,
      IBPI_PATTERN_REBUILD, IBPI_PATTERN_HOTSPARE }

Patterns == Addressable \cup { IBPI_PATTERN_NORMAL, IBPI_PATTERN_ONESHOT_NORMAL }

\* static uint8_t amd_ibpi_ipmi_register[]
amd_ibpi_ipmi_register(ibpi) ==
    CASE ibpi = IBPI_PATTERN_PFA          -> 65    \* 0x41
      [] ibpi = IBPI_PATTERN_LOCATE       -> 0     \* 0x0
      [] ibpi = IBPI_PATTERN_LOCATE_OFF   -> 1     \* 0x1
      [] ibpi = IBPI_PATTERN_FAILED_DRIVE -> 68    \* 0x44
      [] ibpi = IBPI_PATTERN_FAILED_ARRAY -> 69    \* 0x45
      [] ibpi = IBPI_PATTERN_REBUILD      -> 70    \* 0x46
      [] ibpi = IBPI_PATTERN_HOTSPARE     -> 71    \* 0x47

Registers == { amd_ibpi_ipmi_register(p) : p \in Addressable }

-----------------------------------------------------------------------------
(* C integer arithmetic: int is 32 bits wide and two's complement,         *)
(* uint8_t is 8 bits wide                                                  *)

Pow2(n) == 2 ^ n

INT_MIN == (-Pow2(30)) - Pow2(30)

\* Conversion of an int to uint8_t keeps the low eight bits.
U8(x) == x % 256

\* a | b on ints, bit by bit from the least significant; the bits above the
\* highest one of a non-negative int are all 0, of a negative int all 1.
RECURSIVE IntOr(_, _)
IntOr(a, b) ==
    IF a = 0 THEN b
    ELSE IF b = 0 THEN a
    ELSE IF a = -1 \/ b = -1 THEN -1
    ELSE (IF a % 2 = 1 \/ b % 2 = 1 THEN 1 ELSE 0) + 2 * IntOr(a \div 2, b \div 2)

\* a & b on ints
RECURSIVE IntAnd(_, _)
IntAnd(a, b) ==
    IF a = 0 \/ b = 0 THEN 0
    ELSE IF a = -1 THEN b
    ELSE IF b = -1 THEN a
    ELSE (IF a % 2 = 1 /\ b % 2 = 1 THEN 1 ELSE 0) + 2 * IntAnd(a \div 2, b \div 2)

\* ~b on ints
IntNot(b) == (-1) - b

\* Bit k (0 = least significant) of an int in two's complement.
Bit(v, k) == (v \div Pow2(k)) % 2

\* (uint8_t)(a | b): the low eight bits of a | b
U8Or(a, b) ==
    LET o(k) == IF Bit(a, k) = 1 \/ Bit(b, k) = 1 THEN Pow2(k) ELSE 0
    IN  o(0) + o(1) + o(2) + o(3) + o(4) + o(5) + o(6) + o(7)

\* (uint8_t)(a & ~b): the low eight bits of a & ~b
U8AndNot(a, b) ==
    LET o(k) == IF Bit(a, k) = 1 /\ Bit(IntNot(b), k) = 1 THEN Pow2(k) ELSE 0
    IN  o(0) + o(1) + o(2) + o(3) + o(4) + o(5) + o(6) + o(7)

\* The two operations on every pair of bytes, computed once.
Byte == 0 .. 255

ByteOr == [a \in Byte |-> [b \in Byte |-> U8Or(a, b)]]

ByteAndNot == [a \in Byte |-> [b \in Byte |-> U8AndNot(a, b)]]

-----------------------------------------------------------------------------
(* The IPMI transport.  A call returns 0, or a non-zero code when the      *)
(* command could not be sent or its response not obtained.                 *)

\* Non-zero codes the transport returns.
ErrCodes == { -1, 2 }

\* What the transport does during one _set_ipmi_register: the code of the
\* read command, the code of the write command, and whether a write command
\* that returned an error had reached the register all the same.
TransportOk == [rd |-> 0, wr |-> 0, applied |-> TRUE]

TransportFaults ==
    { [rd |-> c, wr |-> 0, applied |-> FALSE] : c \in ErrCodes }
    \cup { [rd |-> 0, wr |-> c, applied |-> a] : c \in ErrCodes, a \in BOOLEAN }

Transports == { TransportOk } \cup TransportFaults

\* The five request bytes of a register command.
CmdData(b4) == << 108, 1, 0, 0, b4 >>     \* 0x6c, 0x1, 0x0, 0x0, reg or status

\* The BMC's answer to the read command: the status byte of the register.
IpmiRead(rs, reg) == rs[reg]

\* The BMC's registers after the write command of an operation on reg.
IpmiWrite(rs, reg, status) == [rs EXCEPT ![reg] = status]

-----------------------------------------------------------------------------
(* amd_sm_ipmi.c: the register protocol                                    *)

\* new_drives_status, as computed from the status read and drive->drive_bay
\* new_drives_status computed without the status that was read: the byte
\* holds the drive's own bit and nothing else.
NewDrivesStatus_Overwrite(enable, drives_status, drive_bay) ==
    IF enable THEN U8(drive_bay) ELSE 0

\* drive_bay is an int; only its low eight bits reach the uint8_t result.
NewDrivesStatus(enable, drives_status, drive_bay) ==
    IF enable
    THEN ByteOr[drives_status][U8(drive_bay)]
    ELSE ByteAndNot[drives_status][U8(drive_bay)]

\* _set_ipmi_register without the return after a failed read: status is
\* still 0 and the write command is sent.
_set_ipmi_register_NoReadCheck(enable, reg, drive_bay, rs, t) ==
    LET rd == [phase |-> "read", cmd_data |-> CmdData(reg)]
        drives_status == IF t.rd # 0 THEN 0 ELSE U8(IpmiRead(rs, reg))
        new_drives_status == NewDrivesStatus(enable, drives_status, drive_bay)
        wr == [phase |-> "write", cmd_data |-> CmdData(new_drives_status)]
        after == IF t.wr = 0 \/ t.applied
                 THEN IpmiWrite(rs, reg, new_drives_status)
                 ELSE rs
    IN  [rc |-> t.wr, regs |-> after, cmds |-> << rd, wr >>]

\* _set_ipmi_register sending the read command a second time when the first
\* failed, and giving up when the second fails as well.
_set_ipmi_register_Retry(enable, reg, drive_bay, rs, t) ==
    LET rd == [phase |-> "read", cmd_data |-> CmdData(reg)]
    IN  IF t.rd # 0
        THEN [rc |-> t.rd, regs |-> rs, cmds |-> << rd, rd >>]
        ELSE LET drives_status == U8(IpmiRead(rs, reg))
                 new_drives_status ==
                     NewDrivesStatus(enable, drives_status, drive_bay)
                 wr == [phase |-> "write", cmd_data |-> CmdData(new_drives_status)]
                 after == IF t.wr = 0 \/ t.applied
                          THEN IpmiWrite(rs, reg, new_drives_status)
                          ELSE rs
             IN  [rc |-> t.wr, regs |-> after, cmds |-> << rd, wr >>]

\* static int _set_ipmi_register(int enable, uint8_t reg, struct amd_drive *drive)
\* Returns the code, the BMC registers afterwards and the commands issued.
_set_ipmi_register(enable, reg, drive_bay, rs, t) ==
    LET rd == [phase |-> "read", cmd_data |-> CmdData(reg)]
    IN  IF t.rd # 0
        THEN [rc |-> t.rd, regs |-> rs, cmds |-> << rd >>]
        ELSE LET drives_status == U8(IpmiRead(rs, reg))
                 new_drives_status ==
                     NewDrivesStatus(enable, drives_status, drive_bay)
                 wr == [phase |-> "write", cmd_data |-> CmdData(new_drives_status)]
                 after == IF t.wr = 0 \/ t.applied
                          THEN IpmiWrite(rs, reg, new_drives_status)
                          ELSE rs
             IN  [rc |-> t.wr, regs |-> after, cmds |-> << rd, wr >>]

\* static int _enable_ibpi_state(struct amd_drive *drive, enum ibpi_pattern ibpi)
_enable_ibpi_state(drive_bay, ibpi, rs, t) ==
    _set_ipmi_register(TRUE, amd_ibpi_ipmi_register(ibpi), drive_bay, rs, t)

\* _disable_ibpi_state passing 1 for enable, as _enable_ibpi_state does.
_disable_ibpi_state_Enables(drive_bay, ibpi, rs, t) ==
    _set_ipmi_register(TRUE, amd_ibpi_ipmi_register(ibpi), drive_bay, rs, t)

\* static int _disable_ibpi_state(struct amd_drive *drive, enum ibpi_pattern ibpi)
_disable_ibpi_state(drive_bay, ibpi, rs, t) ==
    _set_ipmi_register(FALSE, amd_ibpi_ipmi_register(ibpi), drive_bay, rs, t)

\* _disable_all_ibpi_states going on to the hotspare register after the six.
DisableOrder_WithHotspare ==
    << IBPI_PATTERN_PFA, IBPI_PATTERN_LOCATE, IBPI_PATTERN_LOCATE_OFF,
       IBPI_PATTERN_FAILED_DRIVE, IBPI_PATTERN_FAILED_ARRAY,
       IBPI_PATTERN_REBUILD, IBPI_PATTERN_HOTSPARE >>

\* The order in which _disable_all_ibpi_states goes through the patterns.
DisableOrder ==
    << IBPI_PATTERN_PFA, IBPI_PATTERN_LOCATE, IBPI_PATTERN_LOCATE_OFF,
       IBPI_PATTERN_FAILED_DRIVE, IBPI_PATTERN_FAILED_ARRAY,
       IBPI_PATTERN_REBUILD >>

\* rc = first; rc |= next; ...
Accumulate(rc, r, first) == IF first THEN r ELSE IntOr(rc, r)

\* static int _disable_all_ibpi_states(struct amd_drive *drive)
\* acc is the state after the first i-1 disables; plan[i] is what the
\* transport does during the i-th.
RECURSIVE DisableFrom(_, _, _, _)
DisableFrom(i, drive_bay, plan, acc) ==
    IF i > Len(DisableOrder)
    THEN acc
    ELSE LET r == _disable_ibpi_state(drive_bay, DisableOrder[i], acc.regs, plan[i])
         IN  DisableFrom(i + 1, drive_bay, plan,
                 [rc    |-> Accumulate(acc.rc, r.rc, i = 1),
                  regs  |-> r.regs,
                  cmds  |-> acc.cmds \o r.cmds,
                  tried |-> Append(acc.tried, DisableOrder[i]),
                  rcs   |-> Append(acc.rcs, r.rc)])

_disable_all_ibpi_states(drive_bay, rs, plan) ==
    DisableFrom(1, drive_bay, plan,
        [rc |-> 0, regs |-> rs, cmds |-> << >>, tried |-> << >>, rcs |-> << >>])


-----------------------------------------------------------------------------
(* amd_sm_ipmi.c: from the device's sysfs path to its drive bay             *)

\* What the sysfs tree holds for a device:
\*   nvme  whether _find_file_path finds an entry starting with "nvme"
\*   addr  the last segment of the path found: "parsed" when it holds a '/'
\*         and a '.', else "no_slash" or "no_dot"
\*   scan  whether /sys/bus/pci/slots can be scanned
\*   slot  "number" when the slot whose address matches has a numeric name,
\*         "not_a_number" when str_toi rejects its name, "no_match" when no
\*         slot has the address
\*   name  the number that the matching slot's name reads as
SlotNames == 0 .. MaxPort

Unresolved(nvme, addr, scan, slot) ==
    [nvme |-> nvme, addr |-> addr, scan |-> scan, slot |-> slot, name |-> 0]

Resolved(n) ==
    [nvme |-> TRUE, addr |-> "parsed", scan |-> TRUE, slot |-> "number", name |-> n]

Resolutions ==
    { Unresolved(FALSE, "parsed", TRUE, "no_match"),
      Unresolved(TRUE, "no_slash", TRUE, "no_match"),
      Unresolved(TRUE, "no_dot", TRUE, "no_match"),
      Unresolved(TRUE, "parsed", FALSE, "no_match"),
      Unresolved(TRUE, "parsed", TRUE, "no_match"),
      Unresolved(TRUE, "parsed", TRUE, "not_a_number") }
    \cup { Resolved(n) : n \in SlotNames }

\* static int _get_ipmi_nvme_port(char *path)
_get_ipmi_nvme_port(res) ==
    IF res.addr = "no_slash" THEN -1
    ELSE IF res.addr = "no_dot" THEN -1
    ELSE IF ~res.scan THEN -1
    ELSE IF res.slot = "not_a_number" THEN -1
    ELSE IF res.slot = "no_match" THEN -1
    ELSE res.name

\* 1 << n on int.  The shift is undefined for n outside 0 .. 30; the builds
\* in use then yield 0 or the sign bit alone.
UndefinedShift == { 0, INT_MIN }

ShiftLeftOne(n, undef) == IF n \in 0 .. 30 THEN Pow2(n) ELSE undef

\* What an uninitialized struct amd_drive may hold in drive_bay.
Indeterminate == { 0, 3 }

\* static int _get_amd_ipmi_drive(const char *start_path, struct amd_drive *drive)
\* drive is the caller's uninitialized local: garbage is what it holds on entry.
_get_amd_ipmi_drive(res, garbage, undef) ==
    IF res.nvme
    THEN LET port == _get_ipmi_nvme_port(res)
         IN  IF port < 0
             THEN [rc |-> -1, port |-> port, drive_bay |-> garbage]
             ELSE [rc |-> 0, port |-> port,
                   drive_bay |-> ShiftLeftOne(port - 1, undef)]
    ELSE [rc |-> 0, port |-> garbage, drive_bay |-> garbage]

\* The values of the unspecified inputs that a resolution can meet.
GarbageFor(res) == IF res.nvme THEN { 0 } ELSE Indeterminate

UndefFor(res) ==
    IF res.nvme /\ _get_ipmi_nvme_port(res) >= 0
       /\ _get_ipmi_nvme_port(res) - 1 \notin 0 .. 30
    THEN UndefinedShift
    ELSE { 0 }

-----------------------------------------------------------------------------
(* What the transport does during a call that makes up to six register     *)
(* operations: a function from the operation's index to Transports         *)

NoFault == [i \in 1 .. Len(DisableOrder) |-> TransportOk]

PlanOf(S, f) ==
    [i \in 1 .. Len(DisableOrder) |-> IF i \in S THEN f[i] ELSE TransportOk]

\* The transport fails during at most MaxFaults of the six operations.
FaultSites == { S \in SUBSET (1 .. Len(DisableOrder)) : Cardinality(S) <= MaxFaults }

DisablePlans ==
    UNION { { PlanOf(S, f) : f \in [S -> TransportFaults] } : S \in FaultSites }

\* The faults met by a write made through the dispatcher, each with the
\* code -1: the read fails, or the write fails before it reaches the register.
WriteFaults ==
    { t \in TransportFaults : t.rd \in { 0, -1 } /\ t.wr \in { 0, -1 } /\ ~t.applied }

\* The transport works throughout the call, or fails during one of its
\* first n operations.
SingleFaultPlans(n) ==
    { NoFault } \cup { PlanOf({ i }, [j \in { i } |-> t]) :
                         i \in 1 .. n, t \in WriteFaults }

PlansOfOne == SingleFaultPlans(1)
PlansOfAll == SingleFaultPlans(Len(DisableOrder))

\* The plans that differ within the n operations of a dispatched write.
Plans(n) == IF n = 0 THEN { NoFault } ELSE IF n = 1 THEN PlansOfOne ELSE PlansOfAll

-----------------------------------------------------------------------------
(* amd_sm_ipmi.c: the backend's entry points                               *)

\* _amd_ipmi_sm_write disabling the six patterns before it enables one, so
\* that one pattern at most is shown for a bay.
_amd_ipmi_sm_write_Exclusive(res, ibpi, rs, garbage, undef, plan) ==
    LET drive == _get_amd_ipmi_drive(res, garbage, undef)
    IN  IF drive.rc # 0
        THEN [rc |-> drive.rc, regs |-> rs, cmds |-> << >>,
              tried |-> << >>, rcs |-> << >>]
        ELSE IF ibpi = IBPI_PATTERN_NORMAL \/ ibpi = IBPI_PATTERN_ONESHOT_NORMAL
        THEN _disable_all_ibpi_states(drive.drive_bay, rs, plan)
        ELSE IF ibpi = IBPI_PATTERN_LOCATE_OFF
        THEN LET r == _disable_ibpi_state(drive.drive_bay,
                          IBPI_PATTERN_LOCATE_OFF, rs, plan[1])
             IN  [rc |-> r.rc, regs |-> r.regs, cmds |-> r.cmds,
                  tried |-> << IBPI_PATTERN_LOCATE_OFF >>, rcs |-> << r.rc >>]
        ELSE LET d == _disable_all_ibpi_states(drive.drive_bay, rs, NoFault)
                 r == _enable_ibpi_state(drive.drive_bay, ibpi, d.regs, plan[1])
             IN  [rc |-> r.rc, regs |-> r.regs, cmds |-> d.cmds \o r.cmds,
                  tried |-> << ibpi >>, rcs |-> << r.rc >>]

\* int _amd_ipmi_sm_write(struct block_device *device, enum ibpi_pattern ibpi)
_amd_ipmi_sm_write(res, ibpi, rs, garbage, undef, plan) ==
    LET drive == _get_amd_ipmi_drive(res, garbage, undef)
    IN  IF drive.rc # 0
        THEN [rc |-> drive.rc, regs |-> rs, cmds |-> << >>,
              tried |-> << >>, rcs |-> << >>]
        ELSE IF ibpi = IBPI_PATTERN_NORMAL \/ ibpi = IBPI_PATTERN_ONESHOT_NORMAL
        THEN _disable_all_ibpi_states(drive.drive_bay, rs, plan)
        ELSE IF ibpi = IBPI_PATTERN_LOCATE_OFF
        THEN LET r == _disable_ibpi_state(drive.drive_bay,
                          IBPI_PATTERN_LOCATE_OFF, rs, plan[1])
             IN  [rc |-> r.rc, regs |-> r.regs, cmds |-> r.cmds,
                  tried |-> << IBPI_PATTERN_LOCATE_OFF >>, rcs |-> << r.rc >>]
        ELSE LET r == _enable_ibpi_state(drive.drive_bay, ibpi, rs, plan[1])
             IN  [rc |-> r.rc, regs |-> r.regs, cmds |-> r.cmds,
                  tried |-> << ibpi >>, rcs |-> << r.rc >>]

\* The number of register operations the write of a pattern makes.
OpsOf(res, ibpi) ==
    IF _get_amd_ipmi_drive(res, 0, 0).rc # 0 THEN 0
    ELSE IF ibpi \in { IBPI_PATTERN_NORMAL, IBPI_PATTERN_ONESHOT_NORMAL }
    THEN Len(DisableOrder)
    ELSE 1

\* int _amd_ipmi_sm_em_enabled(const char *path): c is the transport's code
_amd_ipmi_sm_em_enabled(c) ==
    [rc |-> IF c # 0 THEN 0 ELSE 1,
     cmds |-> << [phase |-> "probe", cmd_data |-> << 0, 0, 1, 108 >>] >>]

-----------------------------------------------------------------------------
(* lib/amd.c: platform detection                                           *)

AMD_INTF_UNSET         == "AMD_INTF_UNSET"
AMD_INTF_SGPIO         == "AMD_INTF_SGPIO"
AMD_INTF_IPMI          == "AMD_INTF_IPMI"
AMD_INTF_NEW_INTERFACE == "AMD_INTF_NEW_INTERFACE"

AMD_PLATFORM_UNSET     == "AMD_PLATFORM_UNSET"
AMD_PLATFORM_ETHANOL_X == "AMD_PLATFORM_ETHANOL_X"
AMD_PLATFORM_DAYTONA_X == "AMD_PLATFORM_DAYTONA_X"
AMD_PLATFORM_LENOVO_X  == "AMD_PLATFORM_LENOVO_X"

\* Strings are sequences of characters; the character past the end is NUL.
NUL == "\\0"

CharAt(s, i) == IF i <= Len(s) THEN s[i] ELSE NUL

\* strncmp(a, b, n) == 0
RECURSIVE StrnEqFrom(_, _, _, _)
StrnEqFrom(a, b, n, i) ==
    \/ i > n
    \/ /\ CharAt(a, i) = CharAt(b, i)
       /\ (CharAt(a, i) = NUL \/ StrnEqFrom(a, b, n, i + 1))

StrnEq(a, b, n) == StrnEqFrom(a, b, n, 1)

Str_ETHANOL_X == << "E", "T", "H", "A", "N", "O", "L", "_", "X" >>
Str_DAYTONA_X == << "D", "A", "Y", "T", "O", "N", "A", "_", "X" >>
Str_ThinkSystem ==
    << "T", "h", "i", "n", "k", "S", "y", "s", "t", "e", "m", " ",
       "S", "R", "6", "5", "5", " ", "V", "3" >>

\* What /sys/class/dmi/id/product_name holds when amd_em_enabled reads it.
Readable(text) == [readable |-> TRUE, text |-> text]
Unreadable == [readable |-> FALSE, text |-> << >>]

ProductNames ==
    { Str_ETHANOL_X,
      Str_ETHANOL_X \o << "2" >>,
      << "e", "t", "h", "a", "n", "o", "l", "_", "x" >>,
      << "E", "T", "H", "A", "N", "O", "L", "_" >>,
      Str_DAYTONA_X,
      Str_DAYTONA_X \o << "-", "R", "e", "v", "B" >>,
      Str_ThinkSystem,
      Str_ThinkSystem \o << " ", "M", "B" >>,
      << "T", "h", "i", "n", "k", "S", "y", "s", "t", "e", "m", " ",
         "S", "R", "6", "5", "5", " ", "V", "2" >>,
      << "u", "n", "k", "n", "o", "w", "n", "-", "b", "o", "x" >>,
      << >> }

Identities == { Readable(t) : t \in ProductNames } \cup { Unreadable }

\* The prefix checks made with strcmp: the whole product name is compared.
DetectPlatform_WholeName(platform0, id) ==
    IF ~id.readable
    THEN [interface |-> AMD_INTF_SGPIO, platform |-> platform0]
    ELSE IF id.text = Str_ETHANOL_X
    THEN [interface |-> AMD_INTF_IPMI, platform |-> AMD_PLATFORM_ETHANOL_X]
    ELSE IF id.text = Str_DAYTONA_X
    THEN [interface |-> AMD_INTF_IPMI, platform |-> AMD_PLATFORM_DAYTONA_X]
    ELSE IF id.text = Str_ThinkSystem
    THEN [interface |-> AMD_INTF_NEW_INTERFACE, platform |-> AMD_PLATFORM_LENOVO_X]
    ELSE [interface |-> AMD_INTF_SGPIO, platform |-> platform0]

\* The default assigned after the identity file was read instead of before:
\* an unreadable file leaves the interface unset.
DetectPlatform_LateDefault(platform0, id) ==
    IF ~id.readable
    THEN [interface |-> AMD_INTF_UNSET, platform |-> platform0]
    ELSE IF StrnEq(id.text, Str_ETHANOL_X, 9)
    THEN [interface |-> AMD_INTF_IPMI, platform |-> AMD_PLATFORM_ETHANOL_X]
    ELSE IF StrnEq(id.text, Str_DAYTONA_X, 9)
    THEN [interface |-> AMD_INTF_IPMI, platform |-> AMD_PLATFORM_DAYTONA_X]
    ELSE IF StrnEq(id.text, Str_ThinkSystem, 20)
    THEN [interface |-> AMD_INTF_NEW_INTERFACE, platform |-> AMD_PLATFORM_LENOVO_X]
    ELSE [interface |-> AMD_INTF_SGPIO, platform |-> platform0]

\* amd_em_enabled up to the switch: the two globals after the prefix checks.
DetectPlatform(platform0, id) ==
    IF ~id.readable
    THEN [interface |-> AMD_INTF_SGPIO, platform |-> platform0]
    ELSE IF StrnEq(id.text, Str_ETHANOL_X, 9)
    THEN [interface |-> AMD_INTF_IPMI, platform |-> AMD_PLATFORM_ETHANOL_X]
    ELSE IF StrnEq(id.text, Str_DAYTONA_X, 9)
    THEN [interface |-> AMD_INTF_IPMI, platform |-> AMD_PLATFORM_DAYTONA_X]
    ELSE IF StrnEq(id.text, Str_ThinkSystem, 20)
    THEN [interface |-> AMD_INTF_NEW_INTERFACE, platform |-> AMD_PLATFORM_LENOVO_X]
    ELSE [interface |-> AMD_INTF_SGPIO, platform |-> platform0]

\* What the backend's probe is given: the transport's code for the IPMI
\* probe, the return value itself for the probes of the other backends.
ProbeInputs(id, interface) ==
    IF ~id.readable THEN { 0 }
    ELSE IF interface = AMD_INTF_IPMI THEN { 0 } \cup ErrCodes
    ELSE { 0, 1 }

\* errno.h: operation not supported
EOPNOTSUPP == 95

\* int amd_em_enabled(const char *path, struct led_ctx *ctx)
amd_em_enabled(platform0, id, x) ==
    LET d == DetectPlatform(platform0, id)
        none == [rc |-> 0, cmds |-> << >>]
        probe ==
            CASE ~id.readable -> none
              [] id.readable /\ d.interface = AMD_INTF_SGPIO -> [none EXCEPT !.rc = x]
              [] id.readable /\ d.interface = AMD_INTF_IPMI -> _amd_ipmi_sm_em_enabled(x)
              [] id.readable /\ d.interface = AMD_INTF_NEW_INTERFACE ->
                     [none EXCEPT !.rc = x]
              [] OTHER -> [none EXCEPT !.rc = -EOPNOTSUPP]
    IN  [interface |-> d.interface,
         platform  |-> d.platform,
         backend   |-> IF id.readable THEN d.interface ELSE "none",
         rc        |-> probe.rc,
         cmds      |-> probe.cmds]

-----------------------------------------------------------------------------
(* lib/amd.c: the dispatcher                                               *)

\* status_t: success is zero, STATUS_FILE_WRITE_ERROR a non-zero member.
STATUS_SUCCESS == 0
STATUS_FILE_WRITE_ERROR == 14

\* What the backends outside this model return for a write.
ExternalStatus == { STATUS_SUCCESS, STATUS_FILE_WRITE_ERROR }

\* What amd_write returns without calling a backend.
Idle(dev, rs) ==
    [rc |-> STATUS_SUCCESS, regs |-> rs, cmds |-> << >>,
     tried |-> << >>, rcs |-> << >>, backend |-> "none",
     ibpi_prev |-> dev.ibpi_prev]

\* switch (amd_interface) in amd_write
\* ext is what an outside backend returns; the rest is passed to the IPMI backend.
WriteSwitch(interface, dev, ibpi, rs, ext, garbage, undef, plan) ==
    CASE interface = AMD_INTF_SGPIO ->
             [Idle(dev, rs) EXCEPT !.rc = ext, !.backend = AMD_INTF_SGPIO]
      [] interface = AMD_INTF_IPMI ->
             LET r == _amd_ipmi_sm_write(dev.res, ibpi, rs, garbage, undef, plan)
             IN  [rc |-> r.rc, regs |-> r.regs, cmds |-> r.cmds,
                  tried |-> r.tried, rcs |-> r.rcs,
                  backend |-> AMD_INTF_IPMI,
                  ibpi_prev |-> dev.ibpi_prev]
      [] interface = AMD_INTF_NEW_INTERFACE ->
             [Idle(dev, rs) EXCEPT !.rc = ext, !.backend = AMD_INTF_NEW_INTERFACE]
      [] OTHER ->
             [Idle(dev, rs) EXCEPT !.rc = STATUS_FILE_WRITE_ERROR]

\* amd_write without the comparison with device->ibpi_prev.
amd_write_NoDedup(interface, dev, ibpi, rs, ext, garbage, undef, plan) ==
    WriteSwitch(interface, dev, ibpi, rs, ext, garbage, undef, plan)

\* amd_write storing the pattern in device->ibpi_prev when it succeeded.
amd_write_Records(interface, dev, ibpi, rs, ext, garbage, undef, plan) ==
    LET r == IF ibpi = dev.ibpi_prev
             THEN Idle(dev, rs)
             ELSE WriteSwitch(interface, dev, ibpi, rs, ext, garbage, undef, plan)
    IN  IF r.rc = STATUS_SUCCESS THEN [r EXCEPT !.ibpi_prev = ibpi] ELSE r

\* amd_write with the switch put before the comparison: an unset interface
\* is reported whatever the pattern.
amd_write_RouteFirst(interface, dev, ibpi, rs, ext, garbage, undef, plan) ==
    IF interface \notin { AMD_INTF_SGPIO, AMD_INTF_IPMI, AMD_INTF_NEW_INTERFACE }
    THEN [Idle(dev, rs) EXCEPT !.rc = STATUS_FILE_WRITE_ERROR]
    ELSE IF ibpi = dev.ibpi_prev
    THEN Idle(dev, rs)
    ELSE WriteSwitch(interface, dev, ibpi, rs, ext, garbage, undef, plan)

\* amd_write running the detection's default when the interface is unset:
\* the write goes to the SGPIO backend.
amd_write_Detects(interface, dev, ibpi, rs, ext, garbage, undef, plan) ==
    IF ibpi = dev.ibpi_prev
    THEN Idle(dev, rs)
    ELSE WriteSwitch(IF interface = AMD_INTF_UNSET THEN AMD_INTF_SGPIO ELSE interface,
                     dev, ibpi, rs, ext, garbage, undef, plan)

\* status_t amd_write(struct block_device *device, enum led_ibpi_pattern ibpi)
amd_write(interface, dev, ibpi, rs, ext, garbage, undef, plan) ==
    IF ibpi = dev.ibpi_prev
    THEN Idle(dev, rs)
    ELSE WriteSwitch(interface, dev, ibpi, rs, ext, garbage, undef, plan)

\* The null pointer.
NULL == "NULL"

\* What the backends outside this model return for get_path: a path they
\* allocated, or the null pointer.
ExternalPaths == { "path", NULL }

\* amd_get_path taking an unset interface for SGPIO.
amd_get_path_Guess(interface, ext) ==
    CASE interface \in { AMD_INTF_IPMI, AMD_INTF_NEW_INTERFACE } ->
             [path |-> ext, backend |-> AMD_INTF_IPMI]
      [] OTHER ->
             [path |-> ext, backend |-> AMD_INTF_SGPIO]

\* char *amd_get_path(const char *cntrl_path, const char *sysfs_path, ...)
\* ext is what the backend returns.  _amd_ipmi_get_path serves both the IPMI
\* and the new interface.
amd_get_path(interface, ext) ==
    CASE interface = AMD_INTF_SGPIO ->
             [path |-> ext, backend |-> AMD_INTF_SGPIO]
      [] interface \in { AMD_INTF_IPMI, AMD_INTF_NEW_INTERFACE } ->
             [path |-> ext, backend |-> AMD_INTF_IPMI]
      [] OTHER ->
             [path |-> NULL, backend |-> "none"]

-----------------------------------------------------------------------------
(* State                                                                   *)

\* Status bytes the registers may hold when the process starts.
InitStatus == { 0, 165, 255 }

\* What device->ibpi_prev may hold when the dispatcher is called.
PrevInputs == { IBPI_PATTERN_UNKNOWN, IBPI_PATTERN_LOCATE }

\* A call that was not made.  Of a call that was made, the record keeps
\*   op, ibpi, enable, id   the entry point and its arguments and inputs
\*   t                      what the transport did (one register operation)
\*   interface0, platform0  the two globals when the call was made
\*   prev                   device->ibpi_prev when the call was made
\*   before                 the BMC registers when the call was made
\*   port, drive_bay        the struct amd_drive the call worked with
\*   backend                the backend the call was routed to
\*   rc, cmds, tried, rcs   what it returned, the commands it issued, the
\*                          patterns whose register it operated on, and the
\*                          code of each of these operations
\*   path                   the pointer amd_get_path returned
NoCall ==
    [op |-> "none", ibpi |-> "none", enable |-> FALSE, id |-> Unreadable,
     t |-> TransportOk, interface0 |-> AMD_INTF_UNSET,
     platform0 |-> AMD_PLATFORM_UNSET, prev |-> "none",
     before |-> [r \in Registers |-> 0], port |-> 0, drive_bay |-> 0,
     backend |-> "none", rc |-> 0, cmds |-> << >>, tried |-> << >>,
     rcs |-> << >>, path |-> "none"]

\* The processes that may drive the register protocol at the same time.
Procs == { 1, 2 }

\* A register operation that no process has under way.  Of one under way:
\*   pc                   "called" before the read command, "read" between
\*                        the two commands, "returned" afterwards
\*   ibpi, enable         the arguments
\*   port, drive_bay      the struct amd_drive it works with
\*   drives_status        the local of that name, set from the read
\*   rc                   what it returned
\*   read_at, wrote_at    the transport calls, counted from 1 over both
\*                        processes, in which its commands got through
NoOp ==
    [pc |-> "none", ibpi |-> "none", enable |-> FALSE, port |-> 0,
     drive_bay |-> 0, drives_status |-> 0, rc |-> 0, read_at |-> 0,
     wrote_at |-> 0]

NoOps == [p \in Procs |-> NoOp]

\* No directory search under way.  Of one under way:
\*   tree      the directory tree searched
\*   stack     the calls of _find_file_path under way, the innermost last:
\*             its start_path (dir), its place in list_for_each (idx), its
\*             local found, and where it stands (pc)
\*   held      the directories whose listing is allocated
\*   scanned   the directories scan_dir was called on, in order
\*   pc        "running", and "returned" when the outermost call returned
\*   found     what the outermost call returned
\*   path      the directory written to the caller's buffer, 0 for none
NoWalk ==
    [tree |-> << >>, stack |-> << >>, held |-> { }, scanned |-> << >>,
     pc |-> "none", found |-> 0, path |-> 0]

\* The devices written through the dispatcher.
Devices ==
    { [res |-> r, ibpi_prev |-> p] :
        r \in { Resolved(1),
                Unresolved(FALSE, "parsed", TRUE, "no_match"),
                Unresolved(TRUE, "parsed", TRUE, "no_match") },
        p \in PrevInputs }

\* What is kept of the call before the one now made, a call of entry point
\* op for pattern ibpi that reads identity id: the whole of it when it was a
\* call of the same entry point for the same pattern or identity and returned
\* no error; nothing of it otherwise.
Carry(op, ibpi, id) ==
    IF /\ last.op = op
       /\ last.ibpi = ibpi
       /\ last.id = id
       /\ (last.rc = 0 \/ last.op = "em_enabled")
    THEN last
    ELSE NoCall

Init ==
    /\ amd_interface = AMD_INTF_UNSET
    /\ amd_ipmi_platform = AMD_PLATFORM_UNSET
    /\ regs = [r \in Registers |-> 165]
    /\ device \in Devices
    /\ last = NoCall
    /\ prior = NoCall
    /\ calls = 0
    /\ inflight = NoOps
    /\ walk = NoWalk

\* amd_em_enabled is called and reads one of ids from the identity file
Detect(ids) ==
    /\ calls < MaxCalls
    /\ \E id \in ids :
         \E x \in ProbeInputs(id, DetectPlatform(amd_ipmi_platform, id).interface) :
           LET r == amd_em_enabled(amd_ipmi_platform, id, x)
           IN  /\ amd_interface' = r.interface
               /\ amd_ipmi_platform' = r.platform
               /\ last' = [NoCall EXCEPT !.op = "em_enabled", !.id = id,
                                         !.interface0 = amd_interface,
                                         !.platform0 = amd_ipmi_platform,
                                         !.before = regs,
                                         !.backend = r.backend, !.rc = r.rc, !.cmds = r.cmds]
               /\ prior' = Carry("em_enabled", NoCall.ibpi, id)
               /\ calls' = calls + 1
               /\ UNCHANGED << inflight, walk >>
               /\ UNCHANGED << regs, device >>

\* The identity files of the machines the dispatcher is run on.
MachineIdentities ==
    { Readable(Str_ETHANOL_X), Readable(Str_ThinkSystem \o << " ", "M", "B" >>),
      Readable(<< "u", "n", "k", "n", "o", "w", "n", "-", "b", "o", "x" >>),
      Unreadable }

EmEnabled == Detect(MachineIdentities)

\* The inputs of a write that its outcome can depend on.
ExtFor(ibpi) ==
    IF ibpi # device.ibpi_prev
       /\ amd_interface \in { AMD_INTF_SGPIO, AMD_INTF_NEW_INTERFACE }
    THEN ExternalStatus
    ELSE { STATUS_SUCCESS }

Routed(ibpi) == ibpi # device.ibpi_prev /\ amd_interface = AMD_INTF_IPMI

\* amd_write is called
Write ==
    /\ calls < MaxCalls
    /\ \E ibpi \in Patterns :
         \E ext \in ExtFor(ibpi) :
           \E garbage \in IF Routed(ibpi) THEN GarbageFor(device.res) ELSE { 0 } :
             \E undef \in IF Routed(ibpi) THEN UndefFor(device.res) ELSE { 0 } :
               \E plan \in IF Routed(ibpi) THEN Plans(OpsOf(device.res, ibpi))
                           ELSE { NoFault } :
                 LET r == amd_write(amd_interface, device, ibpi, regs,
                                    ext, garbage, undef, plan)
                 IN  /\ regs' = r.regs
                     /\ device' = [device EXCEPT !.ibpi_prev = r.ibpi_prev]
                     /\ last' = [NoCall EXCEPT !.op = "write", !.ibpi = ibpi,
                                               !.interface0 = amd_interface,
                                               !.platform0 = amd_ipmi_platform,
                                               !.prev = device.ibpi_prev,
                                               !.before = regs,
                                               !.backend = r.backend, !.rc = r.rc,
                                               !.cmds = r.cmds, !.tried = r.tried,
                                               !.rcs = r.rcs]
                     /\ prior' = Carry("write", ibpi, NoCall.id)
                     /\ calls' = calls + 1
                     /\ UNCHANGED << inflight, walk >>
                     /\ UNCHANGED << amd_interface, amd_ipmi_platform >>

\* amd_get_path is called
GetPath ==
    /\ calls < MaxCalls
    /\ \E ext \in IF amd_interface = AMD_INTF_UNSET THEN { NULL } ELSE ExternalPaths :
         LET r == amd_get_path(amd_interface, ext)
         IN  /\ last' = [NoCall EXCEPT !.op = "get_path",
                                       !.interface0 = amd_interface,
                                       !.platform0 = amd_ipmi_platform,
                                       !.before = regs,
                                       !.backend = r.backend, !.path = r.path]
             /\ prior' = Carry("get_path", NoCall.ibpi, NoCall.id)
             /\ calls' = calls + 1
             /\ UNCHANGED << inflight, walk >>
             /\ UNCHANGED << amd_interface, amd_ipmi_platform, regs, device >>

Next == EmEnabled \/ Write \/ GetPath

Spec == Init /\ [][Next]_vars

-----------------------------------------------------------------------------
(* Platform detection called again and again                               *)

InitDetect ==
    /\ amd_interface = AMD_INTF_UNSET
    /\ amd_ipmi_platform = AMD_PLATFORM_UNSET
    /\ regs = [r \in Registers |-> 165]
    /\ device = [res |-> Resolved(1), ibpi_prev |-> IBPI_PATTERN_UNKNOWN]
    /\ last = NoCall
    /\ prior = NoCall
    /\ calls = 0
    /\ inflight = NoOps
    /\ walk = NoWalk

\* amd_em_enabled is called and the identity file holds anything
EmEnabledAny == Detect(Identities)

NextDetect == EmEnabledAny

SpecDetect == InitDetect /\ [][NextDetect]_vars

-----------------------------------------------------------------------------
(* The register protocol called on a resolved drive                        *)

\* The IPMI backend is in use and the device's path has resolved to a slot.
InitProto ==
    /\ amd_interface = AMD_INTF_IPMI
    /\ amd_ipmi_platform = AMD_PLATFORM_ETHANOL_X
    /\ \E s \in InitStatus : regs = [r \in Registers |-> s]
    /\ \E n \in SlotNames :
         device = [res |-> Resolved(n), ibpi_prev |-> IBPI_PATTERN_UNKNOWN]
    /\ last = NoCall
    /\ prior = NoCall
    /\ calls = 0
    /\ inflight = NoOps
    /\ walk = NoWalk

\* The drive is resolved and _enable_ibpi_state or _disable_ibpi_state is
\* called on it
SetLed ==
    /\ calls < MaxOps
    /\ \E enable \in BOOLEAN, ibpi \in Addressable, t \in Transports :
         \E undef \in UndefFor(device.res) :
           LET drive == _get_amd_ipmi_drive(device.res, 0, undef)
               r == IF enable
                    THEN _enable_ibpi_state(drive.drive_bay, ibpi, regs, t)
                    ELSE _disable_ibpi_state(drive.drive_bay, ibpi, regs, t)
           IN  /\ drive.rc = 0
               /\ regs' = r.regs
               /\ last' = [NoCall EXCEPT !.op = "set_led", !.ibpi = ibpi,
                                         !.enable = enable, !.t = t,
                                         !.interface0 = amd_interface,
                                         !.platform0 = amd_ipmi_platform,
                                         !.before = regs,
                                         !.port = drive.port,
                                         !.drive_bay = drive.drive_bay,
                                         !.backend = AMD_INTF_IPMI,
                                         !.rc = r.rc, !.cmds = r.cmds,
                                         !.tried = << ibpi >>, !.rcs = << r.rc >>]
               /\ prior' = Carry("set_led", ibpi, NoCall.id)
               /\ calls' = calls + 1
               /\ UNCHANGED << inflight, walk >>
               /\ UNCHANGED << amd_interface, amd_ipmi_platform, device >>

NextProto == SetLed

SpecProto == InitProto /\ [][NextProto]_vars

-----------------------------------------------------------------------------
(* _disable_all_ibpi_states called on a resolved drive                     *)

\* The drive is resolved and _disable_all_ibpi_states is called on it
DisableAll ==
    /\ calls < MaxDisables
    /\ \E plan \in DisablePlans :
         \E undef \in UndefFor(device.res) :
           LET drive == _get_amd_ipmi_drive(device.res, 0, undef)
               r == _disable_all_ibpi_states(drive.drive_bay, regs, plan)
           IN  /\ drive.rc = 0
               /\ regs' = r.regs
               /\ last' = [NoCall EXCEPT !.op = "disable_all",
                                         !.interface0 = amd_interface,
                                         !.platform0 = amd_ipmi_platform,
                                         !.before = regs,
                                         !.port = drive.port,
                                         !.drive_bay = drive.drive_bay,
                                         !.backend = AMD_INTF_IPMI,
                                         !.rc = r.rc, !.cmds = r.cmds,
                                         !.tried = r.tried, !.rcs = r.rcs]
               /\ prior' = Carry("disable_all", NoCall.ibpi, NoCall.id)
               /\ calls' = calls + 1
               /\ UNCHANGED << inflight, walk >>
               /\ UNCHANGED << amd_interface, amd_ipmi_platform, device >>

NextDisable == DisableAll

SpecDisable == InitProto /\ [][NextDisable]_vars

-----------------------------------------------------------------------------
(* The IPMI backend's write called on any device                           *)

\* The bays of the drives written: in the registers' initial value 0xa5 the
\* bit of bay 1 is set and the bit of bay 2 is clear.
WrittenBays == { 1, 2 }

\* What the sysfs tree holds for the devices written.
WrittenResolutions ==
    { r \in Resolutions : r.slot = "number" => r.name \in WrittenBays }

\* The IPMI backend is in use; the device's path resolves to a bay, or does
\* not resolve for one of the reasons in Resolutions.
InitSm ==
    /\ amd_interface = AMD_INTF_IPMI
    /\ amd_ipmi_platform = AMD_PLATFORM_ETHANOL_X
    /\ regs = [r \in Registers |-> 165]
    /\ \E res \in WrittenResolutions :
         device = [res |-> res, ibpi_prev |-> IBPI_PATTERN_UNKNOWN]
    /\ last = NoCall
    /\ prior = NoCall
    /\ calls = 0
    /\ inflight = NoOps
    /\ walk = NoWalk

\* What is kept of the call before a call of _amd_ipmi_sm_write: the whole
\* of it when it was a call of _amd_ipmi_sm_write that returned 0.
CarryWrite ==
    IF last.op = "sm_write" /\ last.rc = 0 THEN last ELSE NoCall

\* _amd_ipmi_sm_write is called
SmWrite ==
    /\ calls < MaxWrites
    /\ \E ibpi \in Patterns :
         \E garbage \in GarbageFor(device.res) :
           \E undef \in UndefFor(device.res) :
             \E plan \in Plans(OpsOf(device.res, ibpi)) :
               LET r == _amd_ipmi_sm_write(device.res, ibpi, regs,
                                           garbage, undef, plan)
               IN  /\ regs' = r.regs
                   /\ last' = [NoCall EXCEPT !.op = "sm_write", !.ibpi = ibpi,
                                             !.interface0 = amd_interface,
                                             !.platform0 = amd_ipmi_platform,
                                             !.before = regs,
                                             !.backend = AMD_INTF_IPMI,
                                             !.rc = r.rc, !.cmds = r.cmds,
                                             !.tried = r.tried, !.rcs = r.rcs]
                   /\ prior' = CarryWrite
                   /\ calls' = calls + 1
                   /\ UNCHANGED << inflight, walk >>
                   /\ UNCHANGED << amd_interface, amd_ipmi_platform, device >>

NextSm == SmWrite

SpecSm == InitSm /\ [][NextSm]_vars

-----------------------------------------------------------------------------
(* _set_ipmi_register run by two processes, one transport call at a time   *)

\* _set_ipmi_register up to the return after the read command; c is the
\* transport's code for that command.
ReadPhase(reg, rs, c) ==
    IF c # 0
    THEN [rc |-> c, returned |-> TRUE, drives_status |-> 0]
    ELSE [rc |-> 0, returned |-> FALSE, drives_status |-> U8(IpmiRead(rs, reg))]

\* The rest of _set_ipmi_register working on the register as it is when the
\* write command is sent, and not on the status read before.
WritePhase_Fresh(enable, reg, drive_bay, drives_status, rs, t) ==
    LET new_drives_status ==
            NewDrivesStatus(enable, U8(IpmiRead(rs, reg)), drive_bay)
    IN  [rc |-> t.wr,
         regs |-> IF t.wr = 0 \/ t.applied
                  THEN IpmiWrite(rs, reg, new_drives_status)
                  ELSE rs]

\* The rest of _set_ipmi_register: new_drives_status computed from the local
\* drives_status, and the write command.
WritePhase(enable, reg, drive_bay, drives_status, rs, t) ==
    LET new_drives_status == NewDrivesStatus(enable, drives_status, drive_bay)
    IN  [rc |-> t.wr,
         regs |-> IF t.wr = 0 \/ t.applied
                  THEN IpmiWrite(rs, reg, new_drives_status)
                  ELSE rs]

\* The bays and the patterns of the two operations.
RaceBays == { 1, 2, 8 }

RacePatterns == { IBPI_PATTERN_LOCATE, IBPI_PATTERN_FAILED_DRIVE }

\* Each of the two processes has called _enable_ibpi_state or
\* _disable_ibpi_state for a drive of its own, the two drives in two bays.
InitRace ==
    /\ amd_interface = AMD_INTF_IPMI
    /\ amd_ipmi_platform = AMD_PLATFORM_ETHANOL_X
    /\ \E s \in InitStatus : regs = [r \in Registers |-> s]
    /\ device = [res |-> Resolved(1), ibpi_prev |-> IBPI_PATTERN_UNKNOWN]
    /\ last = NoCall
    /\ prior = NoCall
    /\ calls = 0
    /\ \E b \in [Procs -> RaceBays], P \in [Procs -> RacePatterns],
          e \in [Procs -> BOOLEAN] :
         /\ b[1] # b[2]
         /\ inflight =
                [p \in Procs |->
                    [NoOp EXCEPT !.pc = "called", !.ibpi = P[p], !.enable = e[p],
                                 !.port = b[p],
                                 !.drive_bay =
                                     _get_amd_ipmi_drive(Resolved(b[p]), 0, 0).drive_bay]]
    /\ walk = NoWalk

\* Process p sends the read command of its operation
RaceRead(p) ==
    /\ inflight[p].pc = "called"
    /\ \E c \in { 0 } \cup ErrCodes :
         LET r == ReadPhase(amd_ibpi_ipmi_register(inflight[p].ibpi), regs, c)
         IN  inflight' =
                 [inflight EXCEPT ![p] =
                     [@ EXCEPT !.pc = IF r.returned THEN "returned" ELSE "read",
                               !.rc = r.rc,
                               !.drives_status = r.drives_status,
                               !.read_at = IF c = 0 THEN calls + 1 ELSE 0]]
    /\ calls' = calls + 1
    /\ UNCHANGED << amd_interface, amd_ipmi_platform, regs, device, last,
                    prior, walk >>

\* Process p sends the write command of its operation
RaceWrite(p) ==
    /\ inflight[p].pc = "read"
    /\ \E t \in { u \in Transports : u.rd = 0 } :
         LET o == inflight[p]
             r == WritePhase(o.enable, amd_ibpi_ipmi_register(o.ibpi),
                             o.drive_bay, o.drives_status, regs, t)
         IN  /\ regs' = r.regs
             /\ inflight' =
                    [inflight EXCEPT ![p] =
                        [@ EXCEPT !.pc = "returned",
                                  !.rc = r.rc,
                                  !.wrote_at = IF t.wr = 0 \/ t.applied
                                               THEN calls + 1 ELSE 0]]
    /\ calls' = calls + 1
    /\ UNCHANGED << amd_interface, amd_ipmi_platform, device, last, prior, walk >>

NextRace ==
    \/ \E p \in Procs : RaceRead(p)
    \/ \E p \in Procs : RaceWrite(p)

SpecRace == InitRace /\ [][NextRace]_vars

-----------------------------------------------------------------------------
(* lib/amd.c: _find_file_path, one directory entry at a time              *)

\* What an entry of a directory can be:
\*   "match"   its name starts with filename
\*   "file"    another name, and lstat says it is no directory (a symbolic
\*             link to a directory is none)
\*   "dir"     another name, a directory that scan_dir can list
\*   "noscan"  another name, a directory on which scan_dir fails
\*   "nostat"  another name, lstat fails on it
EntryKinds == { "match", "file", "dir", "noscan", "nostat" }

\* The kinds an entry that has entries of its own can be of.
DirKinds == { "dir", "noscan", "nostat" }

\* A tree is a sequence of entries, the first the starting directory; each
\* other entry names the directory it is in, an entry before it.  A
\* directory lists its entries in the order of the sequence.
Extensions(t) ==
    { Append(t, [parent |-> p, kind |-> k]) :
        p \in { i \in 1 .. Len(t) : t[i].kind \in DirKinds }, k \in EntryKinds }

RECURSIVE TreesOf(_)
TreesOf(n) ==
    IF n = 1
    THEN { << [parent |-> 0, kind |-> k] >> : k \in { "dir", "noscan" } }
    ELSE LET S == TreesOf(n - 1)
         IN  S \cup UNION { Extensions(t) : t \in { u \in S : Len(u) = n - 1 } }

Trees == TreesOf(MaxNodes)

\* scan_dir on a directory that can be listed: its entries, in order.
Listing(t, d) ==
    SelectSeq([i \in 1 .. Len(t) |-> i], LAMBDA i : t[i].parent = d)

\* list_erase(&dir) passed over when the entry was found.
Erase_UnlessFound(held, d, found) ==
    IF found # 0 THEN held ELSE held \ { d }

\* list_erase(&dir): the listing of d is freed.
Erase(held, d, found) == held \ { d }

\* A call of _find_file_path that has just been made on directory d.
Called(d) == [dir |-> d, idx |-> 0, found |-> 0, pc |-> "scan"]

\* The innermost call returns v: the call that made it, if any, takes v as
\* its found and leaves the loop when v is not 0; w is the search with the
\* innermost call taken off the stack.
Return(w, v) ==
    IF w.stack = << >>
    THEN [w EXCEPT !.pc = "returned", !.found = v]
    ELSE LET n == Len(w.stack)
         IN  IF v # 0
             THEN [w EXCEPT !.stack[n].found = v, !.stack[n].pc = "erase"]
             ELSE [w EXCEPT !.stack[n].found = v, !.stack[n].idx = @ + 1]

\* The stack without its last call.
Pop(stack) == SubSeq(stack, 1, Len(stack) - 1)

\* The innermost call.
Top == walk.stack[Len(walk.stack)]

\* _find_file_path is called on the starting directory of some tree.
InitWalk ==
    /\ amd_interface = AMD_INTF_UNSET
    /\ amd_ipmi_platform = AMD_PLATFORM_UNSET
    /\ regs = [r \in Registers |-> 165]
    /\ device = [res |-> Resolved(1), ibpi_prev |-> IBPI_PATTERN_UNKNOWN]
    /\ last = NoCall
    /\ prior = NoCall
    /\ calls = 0
    /\ inflight = NoOps
    /\ \E t \in Trees :
         walk = [NoWalk EXCEPT !.tree = t, !.stack = << Called(1) >>,
                               !.pc = "running"]

\* rc = scan_dir(start_path, &dir): on failure the call returns 0 holding
\* nothing; otherwise it holds the listing and starts on its first entry
WalkScan ==
    /\ walk.pc = "running"
    /\ Top.pc = "scan"
    /\ LET d == Top.dir
           n == Len(walk.stack)
           w == [walk EXCEPT !.scanned = Append(@, d)]
       IN  walk' =
               IF walk.tree[d].kind # "dir"
               THEN Return([w EXCEPT !.stack = Pop(@)], 0)
               ELSE [w EXCEPT !.held = @ \cup { d },
                              !.stack[n].idx = 1, !.stack[n].pc = "loop"]
    /\ UNCHANGED << amd_interface, amd_ipmi_platform, regs, device, last,
                    prior, calls, inflight >>

\* One round of list_for_each: the loop ends, or the entry matches, or it is
\* passed over, or it is a directory and _find_file_path is called on it
WalkEntry ==
    /\ walk.pc = "running"
    /\ Top.pc = "loop"
    /\ LET d == Top.dir
           n == Len(walk.stack)
           entries == Listing(walk.tree, d)
       IN  walk' =
               IF Top.idx > Len(entries)
               THEN [walk EXCEPT !.stack[n].pc = "erase"]
               ELSE LET e == entries[Top.idx]
                        kind == walk.tree[e].kind
                    IN  IF kind = "match"
                        THEN [walk EXCEPT !.stack[n].found = 1,
                                          !.stack[n].pc = "erase",
                                          !.path = d]
                        ELSE IF kind = "nostat" \/ kind = "file"
                        THEN [walk EXCEPT !.stack[n].idx = @ + 1]
                        ELSE [walk EXCEPT !.stack = Append(@, Called(e))]
    /\ UNCHANGED << amd_interface, amd_ipmi_platform, regs, device, last,
                    prior, calls, inflight >>

\* list_erase(&dir); return found;
WalkErase ==
    /\ walk.pc = "running"
    /\ Top.pc = "erase"
    /\ walk' = Return([walk EXCEPT !.held = Erase(@, Top.dir, Top.found),
                                   !.stack = Pop(@)],
                      Top.found)
    /\ UNCHANGED << amd_interface, amd_ipmi_platform, regs, device, last,
                    prior, calls, inflight >>

NextWalk == WalkScan \/ WalkEntry \/ WalkErase

\* The search is the work of one thread, which goes on until it returns.
SpecWalk == InitWalk /\ [][NextWalk]_vars /\ WF_vars(NextWalk)

-----------------------------------------------------------------------------
(* Properties of the register protocol                                     *)

\* The last call was one register operation on a drive in one of the eight
\* bays that a status byte has a bit for.
SetLedOnBay ==
    /\ last.op = "set_led"
    /\ last.port \in 1 .. 8

\* The register of the pattern the last call was about.
LastReg == amd_ibpi_ipmi_register(last.ibpi)

\* C1 - sibling isolation: a successful enable or disable of pattern P on a
\* drive in bay 1 to 8 leaves every bit of P's register but the drive's own as
\* it was before the call, and leaves every other register as it was.
C1_SiblingIsolation ==
    (SetLedOnBay /\ last.rc = 0) =>
        /\ \A r \in Registers \ { LastReg } : regs[r] = last.before[r]
        /\ \A k \in (0 .. 7) \ { last.port - 1 } :
               Bit(regs[LastReg], k) = Bit(last.before[LastReg], k)

\* An enable on bay 2 succeeded where the register held 0xa5: bits 0, 2, 5
\* and 7 of the siblings are still set and the drive's bit 1 is set with them.
C1_Witness ==
    /\ SetLedOnBay /\ last.rc = 0 /\ last.enable
    /\ last.port = 2
    /\ last.before[LastReg] = 165
    /\ regs[LastReg] = 167
    /\ calls = 2

\* C8 - when the read command of a register operation fails, the operation
\* returns the transport's code, sends no write command, and every register
\* is as it was before the call.
C8_ReadFailureWritesNothing ==
    (last.op = "set_led" /\ last.t.rd # 0) =>
        /\ last.rc = last.t.rd
        /\ \A i \in 1 .. Len(last.cmds) : last.cmds[i].phase # "write"
        /\ Len(last.cmds) = 1
        /\ regs = last.before

\* The read of an enable failed with code 2 on a register whose bay bit was
\* clear: the code came back and the bit is still clear.
C8_Witness ==
    /\ last.op = "set_led" /\ last.enable
    /\ last.t.rd = 2 /\ last.rc = 2
    /\ last.port = 2
    /\ Bit(regs[LastReg], 1) = 0
    /\ last.cmds = << [phase |-> "read", cmd_data |-> CmdData(LastReg)] >>

\* C9 (as claimed) - a register operation is made only for a port in 1 .. 8,
\* with the mask 1 << (port - 1); a slot name outside 1 .. 8 is a resolution
\* error and no mask of it reaches a register operation.
C9_BayMaskInRange ==
    last.op = "set_led" =>
        /\ last.port \in 1 .. 8
        /\ last.drive_bay = Pow2(last.port - 1)

\* A successful disable of pattern P on a drive in bay 1 to 8, made right
\* after a successful enable of P on the same drive.
RoundTrip ==
    /\ SetLedOnBay /\ ~last.enable /\ last.rc = 0
    /\ prior.op = "set_led" /\ prior.enable /\ prior.rc = 0
    /\ prior.ibpi = last.ibpi

\* C10 (as claimed) - enable then disable restores P's register to what it
\* held before the enable: the bay's bit as it was, the other bits untouched.
C10_RoundTripRestores ==
    RoundTrip => regs[LastReg] = prior.before[LastReg]

\* C10 (amended) - enable then disable leaves the bay's bit clear and the
\* other bits as they were before the enable; the register is restored to
\* what it held before the enable exactly when the bay's bit was clear then.
C10_RoundTripClears ==
    RoundTrip =>
        /\ Bit(regs[LastReg], last.port - 1) = 0
        /\ \A k \in (0 .. 7) \ { last.port - 1 } :
               Bit(regs[LastReg], k) = Bit(prior.before[LastReg], k)
        /\ (regs[LastReg] = prior.before[LastReg])
               <=> (Bit(prior.before[LastReg], last.port - 1) = 0)

\* The round trip on bay 1 where the register held 0xa5, bit 0 set: it now
\* holds 0xa4.
C10_Witness ==
    /\ RoundTrip
    /\ last.port = 1
    /\ prior.before[LastReg] = 165
    /\ regs[LastReg] = 164

\* C16 - no retry: whatever the transport does, a register operation sends
\* one read command, for the pattern's register, and at most one write
\* command; the write command is sent exactly when the read succeeded, after
\* it; and the operation returns the code of the first command that failed,
\* 0 when none did.
C16_NoRetry ==
    last.op = "set_led" =>
        /\ Len(last.cmds) \in { 1, 2 }
        /\ last.cmds[1] = [phase |-> "read", cmd_data |-> CmdData(LastReg)]
        /\ (Len(last.cmds) = 2) <=> (last.t.rd = 0)
        /\ (Len(last.cmds) = 2) => last.cmds[2].phase = "write"
        /\ last.rc = (IF last.t.rd # 0 THEN last.t.rd ELSE last.t.wr)
        /\ (last.rc = 0) <=> (last.t.rd = 0 /\ last.t.wr = 0)

\* The write command of a disable failed with code 2 before it reached the
\* register: one read and one write command were sent, 2 came back and the
\* register is as it was.
C16_Witness ==
    /\ last.op = "set_led" /\ ~last.enable
    /\ last.t = [rd |-> 0, wr |-> 2, applied |-> FALSE]
    /\ last.rc = 2
    /\ Len(last.cmds) = 2
    /\ last.cmds[2].phase = "write"
    /\ regs = last.before

\* Both processes' operations have returned 0.
BothSucceeded ==
    \A p \in Procs : inflight[p].pc = "returned" /\ inflight[p].rc = 0

\* The two operations are on one register.
SameRegister == inflight[1].ibpi = inflight[2].ibpi

\* The bit of p's bay in the register of p's pattern is what p's operation
\* set it to.
Applied(p) ==
    Bit(regs[amd_ibpi_ipmi_register(inflight[p].ibpi)], inflight[p].port - 1)
        = (IF inflight[p].enable THEN 1 ELSE 0)

\* p's read command came before q's write command and p's write command
\* after it: p wrote back a status that q's update is not in.
Stale(p, q) ==
    /\ inflight[p].read_at < inflight[q].wrote_at
    /\ inflight[q].wrote_at < inflight[p].wrote_at

\* C11 - the read-modify-write is not serialized: when two operations on two
\* bays have both returned success, the update of each is in the registers
\* if they are on two registers; if they share one, the update of the one
\* that wrote last is in it, and the update of the other is in it exactly
\* when the last writer read after the other wrote, or read the other's bit
\* at the value the other meant to give it.  So the update of the first
\* writer is lost when the two reads come before the two writes.
C11_LostUpdate ==
    BothSucceeded =>
        \A p, q \in Procs :
            (p # q /\ inflight[q].wrote_at < inflight[p].wrote_at) =>
                /\ Applied(p)
                /\ ~SameRegister => Applied(q)
                /\ SameRegister =>
                       (Applied(q) <=>
                           \/ ~Stale(p, q)
                           \/ Bit(inflight[p].drives_status, inflight[q].port - 1)
                                  = (IF inflight[q].enable THEN 1 ELSE 0))

\* Both processes enabled LOCATE, for bays 1 and 2, where the register held
\* 0: both read 0, both returned success, and the register holds 0x02, the
\* bit of bay 1 lost.
C11_Witness ==
    /\ BothSucceeded /\ SameRegister
    /\ inflight[1].ibpi = IBPI_PATTERN_LOCATE
    /\ inflight[1].enable /\ inflight[2].enable
    /\ inflight[1].port = 1 /\ inflight[2].port = 2
    /\ inflight[1].drives_status = 0 /\ inflight[2].drives_status = 0
    /\ regs[0] = 2
    /\ ~Applied(1)

-----------------------------------------------------------------------------
(* Properties of _disable_all_ibpi_states                                  *)

\* The first non-zero code of a sequence of codes, 0 when there is none.
RECURSIVE FirstError(_)
FirstError(rcs) ==
    IF rcs = << >> THEN 0
    ELSE IF Head(rcs) # 0 THEN Head(rcs)
    ELSE FirstError(Tail(rcs))

\* C7 (as claimed) - _disable_all_ibpi_states makes all six disables whatever
\* the earlier ones returned, and returns the code of the first one that
\* failed, 0 when none did.
C7_FirstErrorReturned ==
    last.op = "disable_all" =>
        /\ last.tried = DisableOrder
        /\ last.rc = FirstError(last.rcs)

-----------------------------------------------------------------------------
(* Properties of platform detection                                        *)

\* The last call was a detection.
Detected == last.op = "em_enabled"

\* text begins with the characters of p, compared as they are.
HasPrefix(text, p) ==
    /\ Len(text) >= Len(p)
    /\ SubSeq(text, 1, Len(p)) = p

C5_PrefixMapping ==
    (Detected /\ last.id.readable) =>
        IF HasPrefix(last.id.text, Str_ETHANOL_X)
        THEN /\ amd_interface = AMD_INTF_IPMI
             /\ amd_ipmi_platform = AMD_PLATFORM_ETHANOL_X
        ELSE IF HasPrefix(last.id.text, Str_DAYTONA_X)
        THEN /\ amd_interface = AMD_INTF_IPMI
             /\ amd_ipmi_platform = AMD_PLATFORM_DAYTONA_X
        ELSE IF HasPrefix(last.id.text, Str_ThinkSystem)
        THEN amd_interface = AMD_INTF_NEW_INTERFACE
        ELSE amd_interface = AMD_INTF_SGPIO

\* "DAYTONA_X-RevB" was read where the interface was SGPIO: the interface is
\* now IPMI and the platform DAYTONA_X.
C5_Witness ==
    /\ Detected
    /\ last.id = Readable(Str_DAYTONA_X \o << "-", "R", "e", "v", "B" >>)
    /\ last.interface0 = AMD_INTF_SGPIO
    /\ amd_interface = AMD_INTF_IPMI
    /\ amd_ipmi_platform = AMD_PLATFORM_DAYTONA_X

\* C6 (as claimed) - a detection that cannot read the identity file leaves
\* the default platform, interface SGPIO and IPMI platform variant unset,
\* whatever detections were made before it.
C6_UnreadableGivesDefault ==
    (Detected /\ ~last.id.readable) =>
        /\ amd_interface = AMD_INTF_SGPIO
        /\ amd_ipmi_platform = AMD_PLATFORM_UNSET

-----------------------------------------------------------------------------
(* Properties of the dispatcher's write                                    *)

\* The last call was a write.
Written == last.op = "write"

\* The device is an NVMe drive whose path resolves to one of the bays 1 to 8.
BayResolved ==
    /\ device.res.nvme
    /\ _get_ipmi_nvme_port(device.res) \in 1 .. 8

\* The last two calls were writes of one pattern to the device, the first
\* of them returning success.
WrittenTwice ==
    /\ Written
    /\ prior.op = "write"
    /\ prior.ibpi = last.ibpi

\* The number of write commands among the commands of a call.
RECURSIVE WriteCommands(_)
WriteCommands(cmds) ==
    IF cmds = << >> THEN 0
    ELSE (IF Head(cmds).phase = "write" THEN 1 ELSE 0) + WriteCommands(Tail(cmds))

C2_WitnessNoOp ==
    /\ Written
    /\ last.ibpi = last.prev
    /\ last.interface0 = AMD_INTF_IPMI
    /\ last.cmds = << >>

NotRetried ==
    /\ \A i, j \in 1 .. Len(last.tried) : last.tried[i] = last.tried[j] => i = j
    /\ Len(last.cmds) <= 2 * Len(last.tried)

-----------------------------------------------------------------------------
(* Properties of the dispatcher's routing                                  *)

\* C12 - while the interface is unset, a write of a pattern other than the
\* one in device->ibpi_prev returns a failure status and amd_get_path returns
\* the null pointer; neither calls a backend, issues a transport command or
\* changes a register.
C12_UnsetIsTerminal ==
    /\ (Written /\ last.interface0 = AMD_INTF_UNSET /\ last.ibpi # last.prev) =>
           /\ last.rc = STATUS_FILE_WRITE_ERROR
           /\ last.rc # STATUS_SUCCESS
           /\ last.backend = "none"
           /\ last.cmds = << >>
           /\ regs = last.before
    /\ (last.op = "get_path" /\ last.interface0 = AMD_INTF_UNSET) =>
           /\ last.path = NULL
           /\ last.backend = "none"
           /\ last.cmds = << >>
           /\ regs = last.before

\* FAILED_DRIVE was written over LOCATE before any detection: the write
\* failed without reaching a backend.
C12_Witness ==
    /\ Written
    /\ last.interface0 = AMD_INTF_UNSET
    /\ last.ibpi = IBPI_PATTERN_FAILED_DRIVE
    /\ last.prev = IBPI_PATTERN_LOCATE
    /\ last.rc = STATUS_FILE_WRITE_ERROR
    /\ last.backend = "none"

\* C13 (as claimed) - a write of a new pattern made before any detection
\* runs the detection first: after it the interface is not unset and the
\* write was routed to the backend of the interface detected.
C13_FirstWriteDetects ==
    (Written /\ last.ibpi # last.prev) =>
        /\ amd_interface # AMD_INTF_UNSET
        /\ last.backend = amd_interface

\* C13 (amended) - a write runs no detection: it leaves the interface and
\* the IPMI platform variant as they were; a write of a new pattern is routed
\* to the backend of the interface the last detection left, and when none was
\* made it fails without reaching a backend.
C13_WriteRunsNoDetection ==
    Written =>
        /\ amd_interface = last.interface0
        /\ amd_ipmi_platform = last.platform0
        /\ (last.ibpi # last.prev) =>
               IF last.interface0 = AMD_INTF_UNSET
               THEN /\ last.backend = "none"
                    /\ last.rc = STATUS_FILE_WRITE_ERROR
               ELSE last.backend = last.interface0

\* The first call of the process was a write of NORMAL: it failed and the
\* interface is still unset.
C13_Witness ==
    /\ Written
    /\ calls = 1
    /\ last.ibpi = IBPI_PATTERN_NORMAL
    /\ last.rc = STATUS_FILE_WRITE_ERROR
    /\ amd_interface = AMD_INTF_UNSET
    /\ amd_ipmi_platform = AMD_PLATFORM_UNSET

\* C18 - the comparison with device->ibpi_prev comes before the routing: a
\* write of the pattern in device->ibpi_prev returns success and reaches no
\* backend whatever the interface, the unset one included, where a write of
\* another pattern fails.
C18_DedupPrecedesRouting ==
    Written =>
        /\ (last.ibpi = last.prev) =>
               /\ last.rc = STATUS_SUCCESS
               /\ last.backend = "none"
               /\ last.cmds = << >>
               /\ regs = last.before
        /\ (last.ibpi # last.prev /\ last.interface0 = AMD_INTF_UNSET) =>
               last.rc # STATUS_SUCCESS

\* LOCATE was written to a device whose ibpi_prev is LOCATE while the
\* interface was unset: the write returned success.
C18_Witness ==
    /\ Written
    /\ last.interface0 = AMD_INTF_UNSET
    /\ last.ibpi = IBPI_PATTERN_LOCATE
    /\ last.prev = IBPI_PATTERN_LOCATE
    /\ last.rc = STATUS_SUCCESS
    /\ last.backend = "none"

-----------------------------------------------------------------------------
(* Properties of the IPMI backend's write                                  *)

\* The last call was a write made by the IPMI backend itself.
SmWritten == last.op = "sm_write"

\* The device's path yields no bay index: no entry starting with "nvme" is
\* found under it, or the address cannot be parsed from it, or the slot
\* registry cannot be scanned or has no slot of that address, or the slot's
\* name is not a number.
NoBayIndex ==
    \/ ~device.res.nvme
    \/ _get_ipmi_nvme_port(device.res) < 0

\* C14 (as claimed) - a write to a device whose path yields no bay index
\* returns an error and issues no transport command.
C14_ResolutionFailureIsFatal ==
    (SmWritten /\ NoBayIndex) =>
        /\ last.rc # 0
        /\ last.cmds = << >>
        /\ regs = last.before

\* The registers addressed by the read commands among cmds, in order.
RECURSIVE ReadRegisters(_)
ReadRegisters(cmds) ==
    IF cmds = << >> THEN << >>
    ELSE IF Head(cmds).phase = "read"
    THEN << Head(cmds).cmd_data[5] >> \o ReadRegisters(Tail(cmds))
    ELSE ReadRegisters(Tail(cmds))

\* _get_amd_ipmi_drive returns 0 for the device.
DriveObtained == _get_amd_ipmi_drive(device.res, 0, 0).rc = 0

\* The bit of the device's bay in a status byte.
BayBit(status) == Bit(status, _get_ipmi_nvme_port(device.res) - 1)

\* C15 - a write of NORMAL or ONESHOT_NORMAL reads the registers 0x41, 0x0,
\* 0x1, 0x44, 0x45 and 0x46, in that order and no other, sending each one's
\* write command after its read when the read succeeded; when all succeed the
\* bay's bit is clear in the six and their other bits are as before; the
\* hotspare register 0x47 is neither read nor written and holds what it held.
C15_NormalDisablesSixInOrder ==
    (/\ SmWritten /\ DriveObtained
     /\ last.ibpi \in { IBPI_PATTERN_NORMAL, IBPI_PATTERN_ONESHOT_NORMAL }) =>
        /\ ReadRegisters(last.cmds) = << 65, 0, 1, 68, 69, 70 >>
        /\ last.tried = << IBPI_PATTERN_PFA, IBPI_PATTERN_LOCATE,
                           IBPI_PATTERN_LOCATE_OFF, IBPI_PATTERN_FAILED_DRIVE,
                           IBPI_PATTERN_FAILED_ARRAY, IBPI_PATTERN_REBUILD >>
        /\ Len(last.cmds) = 6 + WriteCommands(last.cmds)
        /\ \A i \in 1 .. Len(last.cmds) :
               last.cmds[i].phase = "write" => (i > 1 /\ last.cmds[i - 1].phase = "read")
        /\ regs[71] = last.before[71]
        /\ (BayResolved /\ last.rc = 0) =>
               \A r \in { 65, 0, 1, 68, 69, 70 } :
                   /\ BayBit(regs[r]) = 0
                   /\ \A k \in (0 .. 7) \ { _get_ipmi_nvme_port(device.res) - 1 } :
                          Bit(regs[r], k) = Bit(last.before[r], k)

\* NORMAL was written with success to the drive in bay 1, whose bit was set
\* in every register: it is now clear in the rebuild register and still set
\* in the hotspare register.
C15_Witness ==
    /\ SmWritten /\ BayResolved
    /\ last.ibpi = IBPI_PATTERN_NORMAL
    /\ last.rc = 0
    /\ _get_ipmi_nvme_port(device.res) = 1
    /\ BayBit(last.before[70]) = 1 /\ BayBit(regs[70]) = 0
    /\ BayBit(last.before[71]) = 1 /\ BayBit(regs[71]) = 1

\* The patterns whose write enables a register.
Enabling == Addressable \ { IBPI_PATTERN_LOCATE_OFF }

\* C19 - after two successful writes in succession of two different patterns
\* among PFA, LOCATE, FAILED_DRIVE, FAILED_ARRAY, REBUILD and HOTSPARE to the
\* drive of one bay, the bay's bit is set in the registers of both, and the
\* second write changed no register but its own; a write of a pattern other
\* than NORMAL and ONESHOT_NORMAL clears the bay's bit in none of the six
\* registers of these patterns.
C19_EnableKeepsOthers ==
    /\ (/\ SmWritten /\ BayResolved
        /\ prior.op = "sm_write"
        /\ last.ibpi \in Enabling /\ prior.ibpi \in Enabling
        /\ last.ibpi # prior.ibpi
        /\ last.rc = 0 /\ prior.rc = 0) =>
           /\ BayBit(regs[amd_ibpi_ipmi_register(prior.ibpi)]) = 1
           /\ BayBit(regs[amd_ibpi_ipmi_register(last.ibpi)]) = 1
           /\ \A r \in Registers \ { amd_ibpi_ipmi_register(last.ibpi) } :
                  regs[r] = last.before[r]
    /\ (/\ SmWritten /\ BayResolved
        /\ last.ibpi \notin { IBPI_PATTERN_NORMAL, IBPI_PATTERN_ONESHOT_NORMAL }) =>
           \A p \in Enabling :
               BayBit(last.before[amd_ibpi_ipmi_register(p)]) = 1
                   => BayBit(regs[amd_ibpi_ipmi_register(p)]) = 1

\* LOCATE and then FAILED_DRIVE were written with success to the drive in
\* bay 2, whose bit was clear in both registers: both now hold 0xa7.
C19_Witness ==
    /\ SmWritten /\ BayResolved
    /\ _get_ipmi_nvme_port(device.res) = 2
    /\ prior.op = "sm_write" /\ prior.ibpi = IBPI_PATTERN_LOCATE /\ prior.rc = 0
    /\ last.ibpi = IBPI_PATTERN_FAILED_DRIVE /\ last.rc = 0
    /\ prior.before[0] = 165 /\ prior.before[68] = 165
    /\ regs[0] = 167 /\ regs[68] = 167

-----------------------------------------------------------------------------
(* Properties of _find_file_path                                           *)

\* The outermost call of _find_file_path has returned.
WalkReturned == walk.pc = "returned"

\* Entry n is in the listing of a directory that the search can list: every
\* directory from the starting one down to the one n is in is a directory
\* that lstat and scan_dir succeed on.
RECURSIVE Listed(_, _)
Listed(t, n) ==
    /\ n # 1
    /\ t[t[n].parent].kind = "dir"
    /\ (t[n].parent = 1 \/ Listed(t, t[n].parent))

\* The entries whose name matches and that the search can come to.
Matches(t) == { n \in 1 .. Len(t) : t[n].kind = "match" /\ Listed(t, n) }

\* The directories of the calls under way that hold their listing.
Holding ==
    { walk.stack[i].dir : i \in { j \in 1 .. Len(walk.stack) :
                                      walk.stack[j].pc # "scan" } }

\* C17 - on every tree _find_file_path returns; while it runs, the listings
\* allocated are those of the calls under way, and no directory is scanned
\* twice; once it has returned no listing is allocated, whether a scan
\* failed, an entry matched in the outermost or in an inner call, or nothing
\* matched; and it returns 1 exactly when an entry matches that can be come
\* to through directories that can be listed, a directory whose scan fails
\* being passed over, writing the directory of such an entry to the buffer.
C17_WalkTerminatesReleased ==
    /\ <>WalkReturned
    /\ [](walk.held = Holding)
    /\ [](\A i, j \in 1 .. Len(walk.scanned) :
             walk.scanned[i] = walk.scanned[j] => i = j)
    /\ [](WalkReturned =>
             /\ walk.held = { }
             /\ walk.stack = << >>
             /\ (walk.found = 1) <=> (Matches(walk.tree) # { })
             /\ (walk.found = 0) <=> (Matches(walk.tree) = { })
             /\ (walk.found = 1) =>
                    \E n \in Matches(walk.tree) : walk.path = walk.tree[n].parent)

\* The search passed over a directory whose scan failed, went on, and found
\* a matching entry two directories down: it returned 1 with no listing
\* allocated.
C17_Witness ==
    /\ WalkReturned
    /\ walk.found = 1
    /\ \E i \in 1 .. Len(walk.scanned) :
           walk.tree[walk.scanned[i]].kind = "noscan"
    /\ walk.path # 1
    /\ walk.held = { }

====
